---- MODULE Spec2Model ----
(***************************************************************************)
(* Model of src/display/waveshare_display.py: WaveshareDisplay, the driver *)
(* resolver / capability probe / resolution auto-discovery of              *)
(* initialize_display and the power/refresh lifecycle of display_image.    *)
(*                                                                         *)
(* Python values are modelled as follows.                                  *)
(*   None or a value  : <<>> or <<v>>  (an optional)                       *)
(*   a list [a, b]    : <<a, b>>                                           *)
(*   an exception     : [type |-> class name, msg |-> message]             *)
(*   a driver object  : a record of the attributes the code looks at       *)
(***************************************************************************)
EXTENDS Integers, Sequences, FiniteSets, TLC

\* ------------------------------------------------------------------ bounds
MaxClock == 4700        \* the monotonic clock stops advancing here
MaxInits == 2           \* initialize_display calls per behaviour
MaxOptional == 1        \* optional positional parameters of a driver's display()
MaxPixels == 4          \* pixels of a frame given to the bi-color encoder

\* --------------------------------------------------------- program constants
FullClearIntervalS == 60 * 60

\* ------------------------------------------------------------- environment
\* The callers of display_image: the refresh task and a request handler.
Threads == {"refresh", "request"}
Deltas == {1000, 2599, 2600, 2700}   \* amounts by which the clock advances
ConcDeltas == {1000, 2600}           \* the same, while calls interleave
Dim == {122, 250}                    \* native panel dimensions
EpdDir == "display/waveshare_epd"
QuirkyModel == "epd7in5_V2"
InstalledModules == {"epd7in5_V2", "epd2in13"}
DisplayTypes == {<<>>, <<"">>, <<"unknown_model_x">>, <<"epd7in5_V2">>, <<"epd2in13">>}
ConfiguredResolutions == {<<>>, <<250, 122>>, <<122, 250>>}
Frames == {"None", "empty", "image"}

\* How an attribute of the driver object answers getattr / callable.
AttrKinds == {"absent", "noncallable", "callable"}

\* The EPD objects a vendor module may define: the three init names, the
\* display entry point with its positional buffers and optional positional
\* parameters, and the native dimensions.
Drivers ==
    { d \in [init_fast : AttrKinds, Init : AttrKinds, init : AttrKinds,
             display : AttrKinds, nbuf : 1 .. 2, nopt : 0 .. MaxOptional,
             width : Dim, height : Dim] :
        d.display # "callable" => (d.nbuf = 1 /\ d.nopt = 0) }

\* The vendor drivers initialize_display accepts as shipped: Init() and a
\* callable display(), with any of the modelled parameter lists.
LifecycleDrivers ==
    { d \in Drivers : /\ d.init_fast = "absent" /\ d.Init = "callable"
                      /\ d.init = "absent" /\ d.display = "callable"
                      /\ d.width = 250 /\ d.height = 122 }

\* ------------------------------------------------------------------ errors
Exc(t, m) == [type |-> t, msg |-> m]
NoResult == Exc("none", "")
Ok == Exc("ok", "")
MissingModelIdentifier ==
    Exc("ValueError", "Waveshare driver but 'display_type' not specified in configuration.")
UnsupportedModel == Exc("ValueError", "Unsupported Waveshare display type")
IncompatibleDriver == Exc("ValueError", "Display does not support required methods")
InvalidInput == Exc("ValueError", "No image provided.")
UnsupportedCallable == Exc("TypeError", "unsupported callable")
DriverFailure == Exc("OSError", "driver")

VARIABLES
    display_type,       \* device_config["display_type"], an optional string
    resolution,         \* device_config["resolution"], <<>> or <<w, h>>
    installed,          \* the EPD object the module of display_type defines
    sys_path,           \* sys.path
    clock,              \* time.monotonic()
    panel,              \* the panel's power state: "asleep" or "awake"
    full_clear_interval,\* self._full_clear_interval_s, an optional
    last_full_clear,    \* self._last_full_clear_monotonic, an optional
    epd_display,        \* self.epd_display, an optional driver
    epd_display_init,   \* self.epd_display_init, an optional [name, kind]
    bi_color_display,   \* self.bi_color_display, an optional boolean
    ready,              \* the last initialize_display call returned normally
    inits,              \* initialize_display calls so far
    config_writes,      \* device_config.update_value calls so far
    init_trace,         \* what the last initialize_display call did, in order
    init_result,        \* how the last initialize_display call ended
    pc,                 \* per caller: position in display_image
    image,              \* per caller: the frame argument
    now,                \* per caller: local now
    should_full_clear,  \* per caller: local should_full_clear
    last_seen,          \* per caller: self._last_full_clear_monotonic as read
    calls,              \* per caller: the hardware calls issued, in order
    pushed,             \* per caller: the buffers given to display()
    result,             \* per caller: how display_image ended
    traceback,          \* per caller: the line of display_image that raised
    prev_failed,        \* the last display_image call to return raised a driver error
    planes              \* the last output of split_image_for_bi_color_epd

config == <<display_type, resolution, installed>>
fields == <<full_clear_interval, last_full_clear, epd_display, epd_display_init,
            bi_color_display>>
initvars == <<ready, inits, config_writes, init_trace, init_result>>
locals == <<pc, image, now, last_seen, should_full_clear, calls, pushed, result,
            traceback>>
vars == <<config, sys_path, clock, panel, fields, initvars, locals, prev_failed, planes>>

\* ------------------------------------------------------------ pure helpers
\* Python truthiness of an optional string: None and "" are falsy.
TruthyStr(v) == v # <<>> /\ v[1] # ""

\* Python truthiness of an optional list: None and [] are falsy.
TruthyList(v) == v # <<>>

\* Python truthiness of the image argument: None and empty containers are
\* falsy, an image object is truthy.
TruthyFrame(f) == f = "image"

\* Mutant: only an unset identifier is rejected, an empty one is not.
IdentifierMissingNoneOnly(dt) == dt = <<>>

\* if not display_type: raise ValueError(...)
IdentifierMissing(dt) == ~TruthyStr(dt)

\* importlib.import_module(f"display.waveshare_epd.{display_type}")
ModuleFound(name) == name \in InstalledModules

\* getattr(obj, name, default)
GetAttr(d, name, default) ==
    IF d[name] = "absent" THEN default ELSE [name |-> name, kind |-> d[name]]

NoneValue == [name |-> "None", kind |-> "none"]

\* The init entry point bound to self.epd_display_init.
ResolveInit(name, d) ==
    IF name = QuirkyModel
    THEN GetAttr(d, "init_fast", GetAttr(d, "Init", GetAttr(d, "init", NoneValue)))
    ELSE GetAttr(d, "Init", GetAttr(d, "init", NoneValue))

\* callable(x)
Callable(a) == a.kind = "callable"

\* inspect.getfullargspec(bound method).args: self, the buffers, then the
\* positional parameters that have defaults.
DisplayArgs(d) ==
    <<"self">> \o [i \in 1 .. d.nbuf |-> "buffer"] \o [i \in 1 .. d.nopt |-> "optional"]

\* self.bi_color_display = len(display_args_spec.args) > 2
BiColor(args) == Len(args) > 2

\* Mutant: the native pair is stored without normalization.
NormalizeResolutionNoSwap(w, h) == <<w, h>>

\* resolution = [w, h] if w >= h else [h, w]
NormalizeResolution(w, h) == IF w >= h THEN <<w, h>> ELSE <<h, w>>

\* Mutant: the configured resolution is not consulted.
ResolutionConfiguredIgnored(res) == FALSE

\* if not self.device_config.get_config("resolution")
ResolutionConfigured(res) == TruthyList(res)

\* Mutant: a missing module is reported by the AttributeError handler.
ModuleNotFoundHandlerSwapped == IncompatibleDriver

\* except ModuleNotFoundError: raise ValueError("Unsupported ...")
ModuleNotFoundHandler == UnsupportedModel

\* except AttributeError: raise ValueError("Display does not support ...")
AttributeErrorHandler == IncompatibleDriver

\* Mutant: the throttle test never skips the clear.
ShouldFullClearAlways(last, t, interval) == TRUE

\* Mutant: the throttle test with a strict comparison.
ShouldFullClearStrict(last, t, interval) == last = <<>> \/ (t - last[1]) > interval[1]

\* The throttle test of display_image.
ShouldFullClear(last, t, interval) == last = <<>> \/ (t - last[1]) >= interval[1]

\* Mutant: the frame check tests only for None.
ValidFrameNoneOnly(f) == f # "None"

\* if not image: raise ValueError("No image provided.")
ValidFrame(f) == TruthyFrame(f)

\* Mutant: the single-buffer path is taken for every panel.
BuffersSingle(bi) == <<"image">>

\* The buffers display_image hands to the driver's display().
Buffers(bi) == IF ~bi THEN <<"image">> ELSE <<"black_layer", "red_layer">>

\* Mutant: the panel is not reinitialized after the full clear.
NextPcNoReinit(p, clear) ==
    CASE p = "init" -> "check"
      [] p = "check" -> IF clear THEN "clear" ELSE "display"
      [] p = "clear" -> "display"
      [] p = "reinit" -> "display"
      [] p = "display" -> "settle"
      [] p = "settle" -> "sleep"
      [] p = "sleep" -> "done"

\* Mutant: the frame is pushed again after a push.
NextPcRepush(p, clear) ==
    CASE p = "init" -> "check"
      [] p = "check" -> IF clear THEN "clear" ELSE "display"
      [] p = "clear" -> "reinit"
      [] p = "reinit" -> "display"
      [] p = "display" -> "display"
      [] p = "settle" -> "sleep"
      [] p = "sleep" -> "done"

\* Control flow of display_image between its hardware calls.
NextPc(p, clear) ==
    CASE p = "init" -> "check"
      [] p = "check" -> IF clear THEN "clear" ELSE "display"
      [] p = "clear" -> "reinit"
      [] p = "reinit" -> "display"
      [] p = "display" -> "settle"
      [] p = "settle" -> "sleep"
      [] p = "sleep" -> "done"

Range(s) == { s[i] : i \in 1 .. Len(s) }

\* ------------------------------------------- split_image_for_bi_color_epd
\* palette_data = [*black, *white, *red]: the palette indices.
PaletteIndices == {0, 1, 2}

\* What image.quantize(palette=..., dither=FLOYDSTEINBERG) can return for
\* the frames of the model: every pixel holds some index of the palette.
IndexedImages ==
    UNION { [1 .. n -> PaletteIndices] : n \in 1 .. MaxPixels }

\* lambda p: 0 if p == 0 else 1
BlackPoint(p) == IF p = 0 THEN 0 ELSE 1

\* Mutant: the accent mask inks every pixel that is not white.
RedPointNotWhite(p) == IF p # 1 THEN 0 ELSE 1

\* lambda p: 0 if p == 2 else 1
RedPoint(p) == IF p = 2 THEN 0 ELSE 1

\* The two layers computed from the quantized image.
SplitIndexed(q) ==
    [indexed |-> q,
     black_layer |-> [i \in 1 .. Len(q) |-> BlackPoint(q[i])],
     red_layer |-> [i \in 1 .. Len(q) |-> RedPoint(q[i])]]

\* Mutant: the directory is inserted without looking for it first.
InsertEpdDirAlways(path) == <<EpdDir>> \o path

\* if str(epd_dir) not in sys.path: sys.path.insert(0, str(epd_dir))
InsertEpdDir(path) == IF EpdDir \in Range(path) THEN path ELSE <<EpdDir>> \o path

\* ------------------------------------------------------------------- Init
IdleLocals ==
    /\ pc = [t \in Threads |-> "idle"]
    /\ image = [t \in Threads |-> "None"]
    /\ now = [t \in Threads |-> 0]
    /\ last_seen = [t \in Threads |-> <<>>]
    /\ should_full_clear = [t \in Threads |-> FALSE]
    /\ calls = [t \in Threads |-> <<>>]
    /\ pushed = [t \in Threads |-> <<>>]
    /\ result = [t \in Threads |-> NoResult]
    /\ traceback = [t \in Threads |-> <<>>]

\* The process before the display object's first initialize_display call.
Start ==
    /\ sys_path = <<"src">>
    /\ clock = 0
    /\ panel = "asleep"
    /\ full_clear_interval = <<>>
    /\ last_full_clear = <<>>
    /\ epd_display = <<>>
    /\ epd_display_init = <<>>
    /\ bi_color_display = <<>>
    /\ ready = FALSE
    /\ inits = 0
    /\ config_writes = 0
    /\ init_trace = <<>>
    /\ init_result = NoResult
    /\ prev_failed = FALSE
    /\ planes = <<>>
    /\ IdleLocals

\* Any vendor module may be installed under the configured name.
InitAnyDriver ==
    /\ display_type \in DisplayTypes
    /\ resolution \in ConfiguredResolutions
    /\ installed \in Drivers
    /\ Start

\* A conforming vendor module is installed and configured, first run.
Init ==
    /\ display_type = <<"epd2in13">>
    /\ resolution = <<>>
    /\ installed \in LifecycleDrivers
    /\ Start

\* The process once the display object has been constructed and
\* initialize_display has returned normally on a first run.
InitConstructed ==
    /\ display_type = <<"epd2in13">>
    /\ installed \in { d \in LifecycleDrivers : d.nopt = 0 /\ d.nbuf = 1 }
    /\ resolution = NormalizeResolution(installed.width, installed.height)
    /\ sys_path = InsertEpdDir(<<"src">>)
    /\ clock = 0
    /\ panel = "awake"
    /\ full_clear_interval = <<FullClearIntervalS>>
    /\ last_full_clear = <<>>
    /\ epd_display = <<installed>>
    /\ epd_display_init = <<ResolveInit(display_type[1], installed)>>
    /\ bi_color_display = <<BiColor(DisplayArgs(installed))>>
    /\ ready = TRUE
    /\ inits = 1
    /\ config_writes = 1
    /\ init_trace = <<"import_module", "EPD", "init", "getfullargspec", "update_value">>
    /\ init_result = Ok
    /\ prev_failed = FALSE
    /\ planes = <<>>
    /\ IdleLocals

\* No display_image call is in flight.
NoCallInFlight == \A t \in Threads : pc[t] = "idle"

\* --------------------------------------------------- initialize_display
Initialize(hwOk) ==
    /\ NoCallInFlight
    /\ inits < MaxInits
    /\ inits' = inits + 1
    /\ full_clear_interval' = <<FullClearIntervalS>>
    /\ last_full_clear' = <<>>
    /\ LET missing == IdentifierMissing(display_type)
           found == ~missing /\ ModuleFound(display_type[1])
           bound == ResolveInit(display_type[1], installed)
           initCalled == found /\ Callable(bound)
           probed == initCalled /\ hwOk
           classified == probed /\ installed.display = "callable"
           write == classified /\ ~ResolutionConfigured(resolution)
           err == IF missing THEN MissingModelIdentifier
                  ELSE IF ~found THEN ModuleNotFoundHandler
                  ELSE IF ~Callable(bound) THEN AttributeErrorHandler
                  ELSE IF ~hwOk THEN DriverFailure
                  ELSE IF installed.display = "absent" THEN AttributeErrorHandler
                  ELSE IF installed.display = "noncallable" THEN UnsupportedCallable
                  ELSE Ok
       IN /\ sys_path' = IF missing THEN sys_path ELSE InsertEpdDir(sys_path)
          /\ epd_display' = IF found THEN <<installed>> ELSE epd_display
          /\ epd_display_init' = IF found THEN <<bound>> ELSE epd_display_init
          /\ panel' = IF probed THEN "awake" ELSE panel
          /\ bi_color_display' = IF classified THEN <<BiColor(DisplayArgs(installed))>>
                                 ELSE bi_color_display
          /\ resolution' = IF write
                           THEN NormalizeResolution(installed.width, installed.height)
                           ELSE resolution
          /\ config_writes' = IF write THEN config_writes + 1 ELSE config_writes
          /\ init_trace' =
                (IF missing THEN <<>> ELSE <<"import_module">>)
                \o (IF found THEN <<"EPD">> ELSE <<>>)
                \o (IF initCalled THEN <<"init">> ELSE <<>>)
                \o (IF probed THEN <<"getfullargspec">> ELSE <<>>)
                \o (IF write THEN <<"update_value">> ELSE <<>>)
          /\ init_result' = err
          /\ ready' = (err = Ok)
    /\ UNCHANGED <<display_type, installed, clock, locals, prev_failed, planes>>

\* ------------------------------------------------------------ the clock
Tick(d) ==
    /\ clock + d <= MaxClock
    /\ clock' = clock + d
    /\ UNCHANGED <<config, planes, prev_failed, sys_path, panel, fields, initvars,
                   locals>>

\* -------------------------------------------------------- display_image
\* Mutant: every step runs through one helper, whose line the traceback shows.
RaiseLineShared(p, outcome, bi) == 147

\* The line of display_image in the traceback of an exception raised at
\* step p: the raise statement, or the statement whose call failed.
RaiseLine(p, outcome, bi) ==
    CASE p = "idle" -> 135
      [] p = "init" -> 147
      [] p = "clear" -> 157
      [] p = "reinit" -> 161
      [] p = "display" -> IF ~bi THEN 168
                          ELSE IF outcome = "buffer_failed" THEN 170 ELSE 172
      [] p = "sleep" -> 182

\* Mutant: the exception is logged and swallowed; the call returns normally.
RaiseSwallowed(t, e, line) ==
    /\ pc' = [pc EXCEPT ![t] = "done"]
    /\ result' = [result EXCEPT ![t] = Ok]
    /\ traceback' = [traceback EXCEPT ![t] = <<line>>]

\* The call ends by raising e from the given line.
Raise(t, e, line) ==
    /\ pc' = [pc EXCEPT ![t] = "done"]
    /\ result' = [result EXCEPT ![t] = e]
    /\ traceback' = [traceback EXCEPT ![t] = <<line>>]

\* Mutant: the entry refuses to run unless the panel is asleep.
BeginIfAsleep(t, f) ==
    /\ ready
    /\ panel = "asleep"
    /\ pc[t] = "idle"
    /\ image' = [image EXCEPT ![t] = f]
    /\ pc' = [pc EXCEPT ![t] = IF f = "image" THEN "init" ELSE "done"]
    /\ result' = [result EXCEPT ![t] = IF f = "image" THEN NoResult ELSE InvalidInput]
    /\ UNCHANGED <<config, planes, prev_failed, sys_path, clock, panel, fields,
                   initvars, now, last_seen, should_full_clear, calls, pushed,
                   traceback>>

\* Entry: the frame check, before any hardware call.
Begin(t, f) ==
    /\ ready
    /\ pc[t] = "idle"
    /\ image' = [image EXCEPT ![t] = f]
    /\ IF ValidFrame(f)
       THEN /\ pc' = [pc EXCEPT ![t] = "init"]
            /\ result' = [result EXCEPT ![t] = NoResult]
            /\ UNCHANGED traceback
       ELSE Raise(t, InvalidInput, RaiseLine("idle", "ok", FALSE))
    /\ UNCHANGED <<config, planes, prev_failed, sys_path, clock, panel, fields,
                   initvars, now, last_seen, should_full_clear, calls, pushed>>

\* display_image called while no other call is in flight.
RenderStart(t, f) == NoCallInFlight /\ Begin(t, f)

\* self.epd_display_init(), first call
CallInit(t, ok) ==
    /\ pc[t] = "init"
    /\ calls' = [calls EXCEPT ![t] = Append(@, "init")]
    /\ IF ok
       THEN /\ panel' = "awake"
            /\ pc' = [pc EXCEPT ![t] = NextPc("init", FALSE)]
            /\ UNCHANGED <<result, traceback>>
       ELSE /\ Raise(t, DriverFailure, RaiseLine("init", "failed", FALSE))
            /\ UNCHANGED panel
    /\ UNCHANGED <<config, planes, prev_failed, sys_path, clock, fields, initvars,
                   image, now, last_seen, should_full_clear, pushed>>

\* now = time.monotonic(); should_full_clear = ...
ThrottleCheck(t) ==
    /\ pc[t] = "check"
    /\ now' = [now EXCEPT ![t] = clock]
    /\ last_seen' = [last_seen EXCEPT ![t] = last_full_clear]
    /\ LET clear == ShouldFullClear(last_full_clear, clock, full_clear_interval)
       IN /\ should_full_clear' = [should_full_clear EXCEPT ![t] = clear]
          /\ pc' = [pc EXCEPT ![t] = NextPc("check", clear)]
    /\ UNCHANGED <<config, planes, prev_failed, sys_path, clock, panel, fields,
                   initvars, image, calls, pushed, result, traceback>>

\* self.epd_display.Clear()
CallClear(t, ok) ==
    /\ pc[t] = "clear"
    /\ calls' = [calls EXCEPT ![t] = Append(@, "Clear")]
    /\ IF ok
       THEN /\ pc' = [pc EXCEPT ![t] = NextPc("clear", TRUE)]
            /\ UNCHANGED <<result, traceback>>
       ELSE Raise(t, DriverFailure, RaiseLine("clear", "failed", FALSE))
    /\ UNCHANGED <<config, planes, prev_failed, sys_path, clock, panel, fields,
                   initvars, image, now, last_seen, should_full_clear, pushed>>

\* self.epd_display_init() after the clear, then the timestamp is recorded
CallReinit(t, ok) ==
    /\ pc[t] = "reinit"
    /\ calls' = [calls EXCEPT ![t] = Append(@, "init")]
    /\ IF ok
       THEN /\ last_full_clear' = <<now[t]>>
            /\ panel' = "awake"
            /\ pc' = [pc EXCEPT ![t] = NextPc("reinit", TRUE)]
            /\ UNCHANGED <<result, traceback>>
       ELSE /\ Raise(t, DriverFailure, RaiseLine("reinit", "failed", FALSE))
            /\ UNCHANGED <<last_full_clear, panel>>
    /\ UNCHANGED <<config, planes, prev_failed, sys_path, clock,
                   full_clear_interval, epd_display, epd_display_init,
                   bi_color_display, initvars, image, now, last_seen,
                   should_full_clear, pushed>>

\* getbuffer(...) for each buffer, then self.epd_display.display(...)
CallDisplay(t, outcome) ==
    /\ pc[t] = "display"
    /\ IF outcome = "buffer_failed"
       THEN /\ Raise(t, DriverFailure, RaiseLine("display", outcome, bi_color_display[1]))
            /\ UNCHANGED <<calls, pushed>>
       ELSE /\ calls' = [calls EXCEPT ![t] = Append(@, "display")]
            /\ pushed' = [pushed EXCEPT ![t] = Buffers(bi_color_display[1])]
            /\ IF outcome = "ok"
               THEN /\ pc' = [pc EXCEPT ![t] = NextPc("display", FALSE)]
                    /\ UNCHANGED <<result, traceback>>
               ELSE Raise(t, DriverFailure,
                          RaiseLine("display", outcome, bi_color_display[1]))
    /\ UNCHANGED <<config, planes, prev_failed, sys_path, clock, panel, fields,
                   initvars, image, now, last_seen, should_full_clear>>

\* time.sleep(0.2)
Settle(t) ==
    /\ pc[t] = "settle"
    /\ calls' = [calls EXCEPT ![t] = Append(@, "settle")]
    /\ pc' = [pc EXCEPT ![t] = NextPc("settle", FALSE)]
    /\ UNCHANGED <<config, planes, prev_failed, sys_path, clock, panel, fields,
                   initvars, image, now, last_seen, should_full_clear, pushed,
                   result, traceback>>

\* self.epd_display.sleep()
CallSleep(t, ok) ==
    /\ pc[t] = "sleep"
    /\ calls' = [calls EXCEPT ![t] = Append(@, "sleep")]
    /\ IF ok
       THEN /\ panel' = "asleep"
            /\ pc' = [pc EXCEPT ![t] = NextPc("sleep", FALSE)]
            /\ result' = [result EXCEPT ![t] = Ok]
            /\ UNCHANGED traceback
       ELSE /\ Raise(t, DriverFailure, RaiseLine("sleep", "failed", FALSE))
            /\ UNCHANGED panel
    /\ UNCHANGED <<config, planes, prev_failed, sys_path, clock, fields, initvars,
                   image, now, last_seen, should_full_clear, pushed>>

\* The call has returned or raised; its frame and locals are dropped.
Return(t) ==
    /\ pc[t] = "done"
    /\ pc' = [pc EXCEPT ![t] = "idle"]
    /\ image' = [image EXCEPT ![t] = "None"]
    /\ now' = [now EXCEPT ![t] = 0]
    /\ last_seen' = [last_seen EXCEPT ![t] = <<>>]
    /\ should_full_clear' = [should_full_clear EXCEPT ![t] = FALSE]
    /\ calls' = [calls EXCEPT ![t] = <<>>]
    /\ pushed' = [pushed EXCEPT ![t] = <<>>]
    /\ result' = [result EXCEPT ![t] = NoResult]
    /\ traceback' = [traceback EXCEPT ![t] = <<>>]
    /\ prev_failed' = (result[t] = DriverFailure)
    /\ UNCHANGED <<config, planes, sys_path, clock, panel, fields, initvars>>

\* split_image_for_bi_color_epd(image), where quantize returned q
Encode(q) ==
    /\ planes' = <<SplitIndexed(q)>>
    /\ UNCHANGED <<config, sys_path, clock, panel, fields, initvars, locals,
                   prev_failed>>

\* ------------------------------------------------------- specifications
NextEncoder == \E q \in IndexedImages : Encode(q)

SpecEncoder == Init /\ [][NextEncoder]_vars

\* display_image called from both callers with no external serialization.
NextConc ==
    \/ \E d \in ConcDeltas : Tick(d)
    \/ \E t \in Threads, f \in Frames : Begin(t, f)
    \/ \E t \in Threads, ok \in BOOLEAN : CallInit(t, ok)
    \/ \E t \in Threads : ThrottleCheck(t)
    \/ \E t \in Threads, ok \in BOOLEAN : CallClear(t, ok)
    \/ \E t \in Threads, ok \in BOOLEAN : CallReinit(t, ok)
    \/ \E t \in Threads, o \in {"ok", "buffer_failed", "display_failed"} : CallDisplay(t, o)
    \/ \E t \in Threads : Settle(t)
    \/ \E t \in Threads, ok \in BOOLEAN : CallSleep(t, ok)
    \/ \E t \in Threads : Return(t)

SpecConc == InitConstructed /\ [][NextConc]_vars

NextInit == \E ok \in BOOLEAN : Initialize(ok)

SpecInit == InitAnyDriver /\ [][NextInit]_vars

Next ==
    \/ \E ok \in BOOLEAN : Initialize(ok)
    \/ \E d \in Deltas : Tick(d)
    \/ \E t \in Threads, f \in Frames : RenderStart(t, f)
    \/ \E t \in Threads, ok \in BOOLEAN : CallInit(t, ok)
    \/ \E t \in Threads : ThrottleCheck(t)
    \/ \E t \in Threads, ok \in BOOLEAN : CallClear(t, ok)
    \/ \E t \in Threads, ok \in BOOLEAN : CallReinit(t, ok)
    \/ \E t \in Threads, o \in {"ok", "buffer_failed", "display_failed"} : CallDisplay(t, o)
    \/ \E t \in Threads : Settle(t)
    \/ \E t \in Threads, ok \in BOOLEAN : CallSleep(t, ok)
    \/ \E t \in Threads : Return(t)

Spec == Init /\ [][Next]_vars

\* ----------------------------------------------------------------- claims
\* A full clear is due for caller t's render: no clear was on record when the
\* throttle state was read, or at least 3600 s had passed since the record.
Due(t) == last_seen[t] = <<>> \/ now[t] - last_seen[t][1] >= 3600

WithClear == <<"init", "Clear", "init", "display", "settle", "sleep">>
WithoutClear == <<"init", "display", "settle", "sleep">>

\* C1: a render that ends without error issued exactly init, [Clear, init
\* when a full clear was due], display, settle, sleep, in that order, and the
\* panel is asleep when it returns; a Mono panel's first-ever render issued
\* init, Clear, init, display of one buffer, settle, sleep.
C1_RenderOrder ==
    \A t \in Threads :
        (pc[t] = "done" /\ result[t] = Ok) =>
            /\ calls[t] = IF Due(t) THEN WithClear ELSE WithoutClear
            /\ panel = "asleep"
            /\ (last_seen[t] = <<>> /\ bi_color_display = <<FALSE>>) =>
                   (calls[t] = WithClear /\ pushed[t] = <<"image">>)

C1_Witness ==
    \E t \in Threads :
        /\ pc[t] = "done" /\ result[t] = Ok
        /\ last_seen[t] = <<>> /\ bi_color_display = <<FALSE>>
        /\ calls[t] = WithClear /\ pushed[t] = <<"image">>
        /\ panel = "asleep"

\* C2: a render clears exactly when a clear is due (none on record, or
\* now - last_full_clear >= 3600): Clear is only ever called when due; a
\* render past the throttle test has called Clear iff it was due, and the
\* record is the render's own timestamp when due and untouched when not.
C2_Throttle ==
    \A t \in Threads :
        /\ ("Clear" \in Range(calls[t]) \/ pc[t] \in {"clear", "reinit"}) => Due(t)
        /\ (pc[t] \in {"display", "settle", "sleep"} \/ (pc[t] = "done" /\ result[t] = Ok)) =>
              /\ "Clear" \in Range(calls[t]) <=> Due(t)
              /\ last_full_clear = IF Due(t) THEN <<now[t]>> ELSE last_seen[t]

\* The third render of the sequence [0, 1000, 3700]: the clear of t=0 is
\* still the one on record at t=3700, and the render clears again.
C2_Witness ==
    \E t \in Threads :
        /\ pc[t] = "done" /\ result[t] = Ok
        /\ last_seen[t] = <<0>> /\ now[t] = 3700
        /\ "Clear" \in Range(calls[t])
        /\ last_full_clear = <<3700>>

\* C3: a render called without a frame raises InvalidInput with no hardware
\* call issued, and never reaches a hardware step.
C3_NoFrame ==
    \A t \in Threads :
        /\ (pc[t] # "idle" /\ image[t] # "image") =>
              /\ pc[t] = "done"
              /\ result[t] = InvalidInput
              /\ calls[t] = <<>> /\ pushed[t] = <<>>
        /\ (pc[t] = "done" /\ result[t] = InvalidInput) => calls[t] = <<>>

C3_Witness ==
    \E t \in Threads :
        /\ pc[t] = "done" /\ image[t] = "empty"
        /\ result[t] = InvalidInput /\ calls[t] = <<>>
        /\ last_full_clear # <<>>

\* The names the resolver is to probe for the configured model, by priority.
ProbedNames ==
    IF display_type = <<QuirkyModel>> THEN <<"init_fast", "Init", "init">>
    ELSE <<"Init", "init">>

\* The loader finds a module for the configured identifier.
LoaderFinds == display_type \notin {<<>>, <<"">>} /\ display_type[1] \in InstalledModules

\* C4: with the model identifier unset or empty, every initialize fails with
\* MissingModelIdentifier, an error value different from UnsupportedModel and
\* IncompatibleDriver, with no module load, driver call or configuration
\* write attempted.
C4_MissingIdentifier ==
    (inits > 0 /\ display_type \in {<<>>, <<"">>}) =>
        /\ init_result = MissingModelIdentifier
        /\ init_result \notin {UnsupportedModel, IncompatibleDriver}
        /\ init_trace = <<>>
        /\ epd_display = <<>> /\ epd_display_init = <<>>
        /\ config_writes = 0
        /\ panel = "asleep"

C4_Witness ==
    /\ inits > 0 /\ display_type = <<"">>
    /\ init_result = MissingModelIdentifier /\ init_trace = <<>>

\* C5: with a non-empty identifier for which the loader finds no module,
\* every initialize fails with UnsupportedModel, having invoked no driver
\* operation and written nothing to configuration.
C5_UnsupportedModel ==
    (inits > 0 /\ display_type \notin {<<>>, <<"">>}
               /\ display_type[1] \notin InstalledModules) =>
        /\ init_result = UnsupportedModel
        /\ Range(init_trace) \cap {"EPD", "init", "getfullargspec", "update_value"} = {}
        /\ epd_display = <<>> /\ epd_display_init = <<>>
        /\ config_writes = 0
        /\ panel = "asleep"

C5_Witness ==
    /\ inits > 0 /\ display_type = <<"unknown_model_x">>
    /\ init_result = UnsupportedModel /\ init_trace = <<"import_module">>

\* C6: when some probed init name is callable, initialize binds the first
\* callable one in priority order and initializes the panel through it; it
\* fails with IncompatibleDriver for the init entry point only if none is.
C6_FirstCallableBound ==
    (inits > 0 /\ LoaderFinds) =>
        LET callables == { i \in 1 .. Len(ProbedNames) :
                             installed[ProbedNames[i]] = "callable" }
        IN callables # {} =>
              LET first == ProbedNames[CHOOSE i \in callables :
                                          \A j \in callables : i <= j]
              IN /\ epd_display_init = <<[name |-> first, kind |-> "callable"]>>
                 /\ "init" \in Range(init_trace)

\* C7: a successfully probed driver is DualPlane exactly when its display
\* entry point takes two data buffers, whatever optional parameters follow.
C7_CapabilityByBuffers ==
    ready => bi_color_display = <<installed.nbuf = 2>>

\* C8: when the probe reaches a display entry point that is absent or not
\* callable, initialize fails with IncompatibleDriver and writes no
\* resolution.
C8_UnusableDisplay ==
    ("getfullargspec" \in Range(init_trace) /\ installed.display # "callable") =>
        /\ init_result = IncompatibleDriver
        /\ config_writes = 0

\* C9: the resolution initialize stores for native (w, h) is (h, w) if
\* h > w and (w, h) if w >= h, so stored width >= stored height.
C9_Normalized ==
    "update_value" \in Range(init_trace) =>
        LET w == installed.width
            h == installed.height
        IN /\ resolution = IF h > w THEN <<h, w>> ELSE <<w, h>>
           /\ resolution[1] >= resolution[2]

C9_Witness ==
    /\ "update_value" \in Range(init_trace)
    /\ installed.width = 122 /\ installed.height = 250
    /\ resolution = <<250, 122>>

\* C10: a configured resolution is never altered by initialize, and the
\* auto-discovered resolution is written at most once, by a successful
\* initialize that finds none configured.
C10_IdempotentPersistence ==
    /\ [](config_writes <= 1)
    /\ [][/\ resolution # <<>> => (resolution' = resolution /\ config_writes' = config_writes)
          /\ config_writes' # config_writes =>
                (resolution = <<>> /\ config_writes = 0 /\ init_result' = Ok)]_vars

\* A portrait resolution configured for a landscape-reporting panel, after
\* two successful initialize calls.
C10_Witness ==
    /\ inits = 2 /\ ready /\ config_writes = 0
    /\ resolution = <<122, 250>>
    /\ installed.width = 250 /\ installed.height = 122

\* C11: within one process no operation returns last_full_clear to "never
\* cleared" once a clear has been recorded.
C11_ThrottleStateKept ==
    [][last_full_clear # <<>> => last_full_clear' # <<>>]_vars

\* C12: a render that performed the full clear (Clear returned) and then
\* failed at a later step has recorded that clear's timestamp.
C12_ClearRecordedOnFailure ==
    \A t \in Threads :
        (/\ pc[t] = "done" /\ result[t] = DriverFailure
         /\ Len(calls[t]) >= 3 /\ calls[t][2] = "Clear") =>
            last_full_clear = <<now[t]>>

\* C13: a render whose failure is raised after the initial init and before
\* the settle wait (lines 148..176: Clear, re-init, buffer build, display
\* push) has issued no sleep, leaves the panel awake and raises the driver's
\* error.
C13_NoSleepOnFailure ==
    \A t \in Threads :
        (pc[t] = "done" /\ traceback[t] # <<>> /\ traceback[t][1] \in 148 .. 176) =>
            /\ "sleep" \notin Range(calls[t])
            /\ "settle" \notin Range(calls[t])
            /\ panel = "awake"
            /\ result[t] = DriverFailure

C13_Witness ==
    \E t \in Threads :
        /\ pc[t] = "done" /\ result[t] = DriverFailure
        /\ traceback[t] = <<172>>
        /\ calls[t] = <<"init", "Clear", "init", "display">>
        /\ panel = "awake"

Count(s, x) == Cardinality({ i \in 1 .. Len(s) : s[i] = x })

\* C14: per render call Clear, display and sleep are each issued at most
\* once and init at most twice, the second time only after a Clear; once the
\* call has ended (returned or raised) it issues no further hardware call.
C14_NoRetries ==
    /\ [](\A t \in Threads :
            /\ Count(calls[t], "Clear") <= 1
            /\ Count(calls[t], "display") <= 1
            /\ Count(calls[t], "sleep") <= 1
            /\ Count(calls[t], "init") <= 2
            /\ Count(calls[t], "init") = 2 => Count(calls[t], "Clear") = 1)
    /\ [][\A t \in Threads :
            pc[t] = "done" => (calls'[t] = calls[t] \/ pc'[t] = "idle")]_vars

C14_Witness ==
    \E t \in Threads :
        /\ pc[t] = "done" /\ result[t] = DriverFailure
        /\ calls[t] = <<"init", "Clear", "init", "display">>

\* The lifecycle phase a line of display_image belongs to.
PhaseOfLine(l) ==
    CASE l \in {147, 161} -> "init"
      [] l = 157 -> "clear"
      [] l \in 166 .. 175 -> "render"
      [] l = 182 -> "sleep"
      [] OTHER -> "none"

\* The phases the hardware call issued last belongs to; a failed buffer
\* build (render phase) issues no call of its own.
PhasesOfLastCall(c) ==
    IF c = <<>> THEN {"render"}
    ELSE CASE c[Len(c)] = "init" -> {"init", "render"}
           [] c[Len(c)] = "Clear" -> {"clear"}
           [] c[Len(c)] = "display" -> {"render"}
           [] c[Len(c)] = "sleep" -> {"sleep"}
           [] OTHER -> {}

C16_PlanesExclusive ==
    planes # <<>> =>
        LET q == planes[1].indexed
            b == planes[1].black_layer
            r == planes[1].red_layer
        IN /\ Len(b) = Len(q) /\ Len(r) = Len(q)
           /\ \A i \in 1 .. Len(q) :
                 /\ ~(b[i] = 0 /\ r[i] = 0)
                 /\ b[i] = 0 <=> q[i] = 0
                 /\ r[i] = 0 <=> q[i] = 2
                 /\ q[i] = 1 => (b[i] = 1 /\ r[i] = 1)
                 /\ b[i] \in {0, 1} /\ r[i] \in {0, 1}

C16_Witness ==
    /\ planes # <<>>
    /\ planes[1].indexed = <<0, 1, 2>>
    /\ planes[1].black_layer = <<0, 1, 1>>
    /\ planes[1].red_layer = <<1, 1, 0>>

\* C17: a render that called display() pushed exactly the frame's one
\* buffer on a panel probed Mono and exactly the dark plane then the accent
\* plane on a panel probed DualPlane; a successful render pushed once; and
\* no step other than initialize changes the capability flag, the driver
\* handle or the bound init entry point.
C17_Dispatch ==
    /\ [](\A t \in Threads :
            /\ "display" \in Range(calls[t]) =>
                  pushed[t] = IF bi_color_display = <<FALSE>> THEN <<"image">>
                              ELSE <<"black_layer", "red_layer">>
            /\ "display" \notin Range(calls[t]) => pushed[t] = <<>>
            /\ (pc[t] = "done" /\ result[t] = Ok) => Count(calls[t], "display") = 1)
    /\ [][inits' = inits =>
            UNCHANGED <<bi_color_display, epd_display, epd_display_init>>]_vars

C17_Witness ==
    \E t \in Threads :
        /\ pc[t] = "done" /\ result[t] = Ok
        /\ bi_color_display = <<TRUE>>
        /\ installed.nbuf = 2
        /\ pushed[t] = <<"black_layer", "red_layer">>

\* C18: after any number of initialize calls the vendor driver directory
\* occurs at most once in the module search path, and an initialize that
\* fails for a missing identifier does not add it.
C18_SearchPathOnce ==
    /\ Count(sys_path, EpdDir) <= 1
    /\ display_type \in {<<>>, <<"">>} => Count(sys_path, EpdDir) = 0
    /\ (inits > 0 /\ display_type \notin {<<>>, <<"">>}) => sys_path[1] = EpdDir

\* Two initialize calls that both got past the identifier check, the last
\* one failing.
C18_Witness ==
    /\ inits = 2 /\ init_result = UnsupportedModel
    /\ sys_path = <<EpdDir, "src">>

\* C19: display_image checks no panel state at entry and calls init
\* unconditionally, so a render can always be started on an initialized
\* display with no call in flight, whatever the panel's power state; and
\* after a render that raised a driver error, a later render that ends
\* without error began with init and leaves the panel asleep.
C19_Recovery ==
    /\ (ready /\ NoCallInFlight) =>
          \A t \in Threads : ENABLED RenderStart(t, "image")
    /\ \A t \in Threads :
          /\ pc[t] = "init" => ENABLED CallInit(t, TRUE)
          /\ pc[t] = "check" => ENABLED ThrottleCheck(t)
          /\ pc[t] = "clear" => ENABLED CallClear(t, TRUE)
          /\ pc[t] = "reinit" => ENABLED CallReinit(t, TRUE)
          /\ pc[t] = "display" => ENABLED CallDisplay(t, "ok")
          /\ pc[t] = "settle" => ENABLED Settle(t)
          /\ pc[t] = "sleep" => ENABLED CallSleep(t, TRUE)
          /\ (prev_failed /\ calls[t] # <<>>) => calls[t][1] = "init"
          /\ (prev_failed /\ pc[t] = "done" /\ result[t] = Ok) =>
                (calls[t] \in {WithClear, WithoutClear} /\ panel = "asleep")

C19_Witness ==
    \E t \in Threads :
        /\ prev_failed
        /\ pc[t] = "done" /\ result[t] = Ok
        /\ calls[t][1] = "init"
        /\ panel = "asleep"

\* The constructed state SpecConc starts from is a state Spec reaches.
ConstructedReached ==
    /\ inits = 1 /\ ready /\ NoCallInFlight /\ clock = 0 /\ InitConstructed

Abs(x) == IF x < 0 THEN -x ELSE x

\* Caller t has called Clear in its current render.
Cleared(t) == "Clear" \in Range(calls[t])

\* C20: the throttle test and the record are guarded by no lock: a caller
\* can enter and can evaluate the test wherever the other caller stands.
\* Each caller that called Clear found it due on the record it read; and of
\* two renders in flight that both called Clear less than 3600 s apart,
\* neither read a record holding the other's timestamp: each evaluated the
\* test before the other recorded.
C20_UnlockedThrottle ==
    \A t \in Threads :
        /\ pc[t] = "idle" => ENABLED Begin(t, "image")
        /\ pc[t] = "check" => ENABLED ThrottleCheck(t)
        /\ Cleared(t) => (Due(t) /\ should_full_clear[t])
        /\ \A u \in Threads \ {t} :
              (Cleared(t) /\ Cleared(u) /\ Abs(now[t] - now[u]) < 3600) =>
                  last_seen[t] # <<now[u]>>

\* Both callers cleared within one interval and both renders ended without
\* error.
C20_Witness ==
    \E t \in Threads : \E u \in Threads \ {t} :
        /\ pc[t] = "done" /\ result[t] = Ok /\ calls[t] = WithClear
        /\ pc[u] = "done" /\ result[u] = Ok /\ calls[u] = WithClear
        /\ last_seen[t] = <<>> /\ last_seen[u] = <<>>
        /\ now[t] = 0 /\ now[u] = 1000

====
